---- MODULE Spec2Model ----
(***************************************************************************)
(* Event notification pipeline: ingress router (sqs_listener.py), the      *)
(* per-channel priority dispatchers and delivery workers                   *)
(* (send_sms_notif.py, email_service.py, send_push_notif.py), the event    *)
(* table, the channel queues and the dead-letter queue.                    *)
(***************************************************************************)
EXTENDS Integers, Sequences, FiniteSets, TLC

(***************************************************************************)
(* Bounds of the model.                                                    *)
(***************************************************************************)
\* number of messages the producers put on event_queue
MaxEvents == 2
\* number of web sockets that connect
MaxSockets == 2
\* number of send_push_notification calls recorded
MaxPushes == 2
\* number of items of table event up to which a send_message may raise
MaxItems == 3
\* number of payloads in a request to publish_events
MaxPayloads == 12
\* number of events routed before the dispatchers start on a backlog
MaxBacklog == 11

(***************************************************************************)
(* Program constants.                                                      *)
(***************************************************************************)
\* size of the chunks publish_events cuts its payloads into
chunk_size == 10
\* MaxNumberOfMessages of every receive_message call of router, sms, email
MaxNumberOfMessages == 10
\* max_retries of the delivery workers
max_retries == 5

\* a key that a dict does not carry (dict.get then yields its default)
Absent == "absent"

Channels == {"sms", "email", "push"}

\* members of class EventStatus(str, Enum)
EventStatus == {"START", "PROCESSING", "SUCCESS", "FAILED"}

\* values of the members of class EventType(str, Enum): the tags of the
\* event payloads, in upper case
EventType == {"LIKE", "COMMENT", "SHARE", "FOLLOW", "UNFOLLOW", "MENTION",
              "MESSAGE", "POST", "REPLY", "UNKNOWN"}

\* values of the members of class UserType(str, Enum)
UserType == {"admin", "premium", "basic", "free"}

\* QUEUES of config/settings.py: the queue the router writes for a channel
QUEUES(c, critical) ==
    CASE c = "sms"   -> IF critical THEN "sms_queue_critical"
                                    ELSE "sms_queue_non_critical"
      [] c = "email" -> IF critical THEN "email_queue_critical"
                                    ELSE "email_queue_non_critical"
      [] c = "push"  -> IF critical THEN "push_notification_queue_critical"
                                    ELSE "push_notification_queue_non_critical"

\* CRITICAL_QUEUE_URL of the dispatcher of a channel
CRITICAL_QUEUE_URL(c) ==
    CASE c = "sms"   -> "sms_queue_critical"
      [] c = "email" -> "email_queue_critical"
      [] c = "push"  -> "push_notification_critical"

\* NON_CRITICAL_QUEUE_URL of the dispatcher of a channel
NON_CRITICAL_QUEUE_URL(c) ==
    CASE c = "sms"   -> "sms_queue_non_critical"
      [] c = "email" -> "email_queue_non_critical"
      [] c = "push"  -> "push_notification_non_critical"

QueueNames ==
    {QUEUES(c, b) : c \in Channels, b \in BOOLEAN}
    \cup {CRITICAL_QUEUE_URL(c) : c \in Channels}
    \cup {NON_CRITICAL_QUEUE_URL(c) : c \in Channels}

(***************************************************************************)
(* Pure functions of the router.                                           *)
(***************************************************************************)
\* str.lower() on the strings that occur in payloads
Lower(s) ==
    CASE s = "MENTION"  -> "mention"
      [] s = "COMMENT"  -> "comment"
      [] s = "REPLY"    -> "reply"
      [] s = "LIKE"     -> "like"
      [] s = "HIGH"     -> "high"
      [] s = "PREMIUM"  -> "premium"
      [] s = "ADMIN"    -> "admin"
      [] OTHER          -> s

\* dict.get(key, default) on a value that may be Absent
Get(v, default) == IF v = Absent THEN default ELSE v

\* determine_priority(event_payload)
determine_priority(p) ==
    LET critical_events == {t \in EventType : t \in {"MENTION", "COMMENT", "REPLY"}}
        critical_user_types == {t \in UserType : t \in {"admin", "premium"}}
    IN  \/ Lower(Get(p.event_type, "")) \in critical_events
        \/ Lower(Get(p.priority, "")) = "high"
        \/ Lower(Get(p.user_type, "")) \in critical_user_types

\* the default preferences get_user_preferences returns when no item exists
DefaultPrefs ==
    [sms |-> TRUE, email |-> TRUE, push |-> TRUE,
     quiet_hours |-> [enabled |-> FALSE, start |-> 2200, end |-> 800],
     priority_only |-> FALSE]

\* the preferences get_user_preferences returns when the lookup raises
FallbackPrefs == [sms |-> TRUE, email |-> TRUE, push |-> TRUE]

\* users; u1 has no item in table user_preferences
Users == {"u1", "u2", "u3", "u4", "u5"}

\* table user_preferences: the users that have an item
HasPreferences(u) == u \in {"u2", "u3", "u4", "u5"}

\* table user_preferences: notification_preferences of the item of a user.
\* Times are HH:MM read as the number HHMM: on zero-padded strings the order
\* of the strings is the order of these numbers.
UserPreferences(u) ==
    CASE u = "u2" -> [priority_only |-> TRUE]
      [] u = "u3" -> [sms |-> TRUE, email |-> TRUE, push |-> TRUE,
                      quiet_hours |-> [enabled |-> TRUE, start |-> 2200, end |-> 800],
                      priority_only |-> FALSE]
      [] u = "u4" -> [sms |-> TRUE, email |-> FALSE, push |-> TRUE,
                      quiet_hours |-> [enabled |-> TRUE, start |-> 900, end |-> 1700]]
      [] u = "u5" -> [sms |-> TRUE, email |-> TRUE, push |-> TRUE,
                      priority_only |-> TRUE]

\* a get_user_preferences that returns an empty dict where it has no item
get_user_preferences_empty(u, ok) ==
    IF ok /\ HasPreferences(u) THEN UserPreferences(u)
    ELSE [priority_only |-> FALSE]

\* get_user_preferences(user_id); ok is FALSE when the table lookup raises
get_user_preferences(u, ok) ==
    IF ~ok THEN FallbackPrefs
    ELSE IF HasPreferences(u) THEN UserPreferences(u)
    ELSE DefaultPrefs

\* user_prefs.get(key, default) on a preferences dict
PrefGet(prefs, key, default) ==
    IF key \in DOMAIN prefs THEN prefs[key] ELSE default

\* is_quiet_hours of route_to_notification_queues at local time now
is_quiet_hours(prefs, now) ==
    /\ PrefGet(PrefGet(prefs, "quiet_hours", [enabled |-> FALSE]), "enabled", FALSE)
    /\ prefs.quiet_hours.start <= now
    /\ now <= prefs.quiet_hours.end

\* route_to_notification_queues reads the clock only under quiet hours
ReadsClock(prefs) ==
    PrefGet(PrefGet(prefs, "quiet_hours", [enabled |-> FALSE]), "enabled", FALSE)

\* a route_to_notification_queues without the priority_only check
SuppressedQuietHoursOnly(p, prefs, now) ==
    is_quiet_hours(prefs, now) /\ ~determine_priority(p)

\* TRUE when route_to_notification_queues returns before any enqueue
Suppressed(p, prefs, now) ==
    \/ is_quiet_hours(prefs, now) /\ ~determine_priority(p)
    \/ PrefGet(prefs, "priority_only", FALSE) /\ ~determine_priority(p)

\* a routing that takes a channel without a switch in the preferences as
\* enabled
RouteTargetsDefaultOn(p, prefs, now) ==
    IF Suppressed(p, prefs, now) THEN <<>>
    ELSE (IF PrefGet(prefs, "sms", TRUE)
             THEN <<QUEUES("sms", determine_priority(p))>> ELSE <<>>)
      \o (IF PrefGet(prefs, "email", TRUE)
             THEN <<QUEUES("email", determine_priority(p))>> ELSE <<>>)
      \o (IF PrefGet(prefs, "push", TRUE)
             THEN <<QUEUES("push", determine_priority(p))>> ELSE <<>>)

\* the queues route_to_notification_queues sends the payload to, in order
RouteTargets(p, prefs, now) ==
    IF Suppressed(p, prefs, now) THEN <<>>
    ELSE (IF PrefGet(prefs, "sms", FALSE)
             THEN <<QUEUES("sms", determine_priority(p))>> ELSE <<>>)
      \o (IF PrefGet(prefs, "email", FALSE)
             THEN <<QUEUES("email", determine_priority(p))>> ELSE <<>>)
      \o (IF PrefGet(prefs, "push", FALSE)
             THEN <<QUEUES("push", determine_priority(p))>> ELSE <<>>)

(***************************************************************************)
(* Inputs.                                                                 *)
(***************************************************************************)
\* the routing did not read the clock
NoClock == 0

\* datetime.now().strftime('%H:%M') at the moment of routing
Clock == {1200, 2330}

BasePayload ==
    [event_type |-> "LIKE", priority |-> Absent, user_type |-> Absent,
     user_id |-> "u1", event_id |-> Absent,
     retry_count_sms |-> 0, retry_count_email |-> 0, retry_count_push |-> 0]

\* the event payloads the producers publish
Payloads ==
    {[BasePayload EXCEPT !.event_type = t, !.user_id = u] :
        t \in {"MENTION", "LIKE"}, u \in Users}
    \cup {[BasePayload EXCEPT !.priority = pr, !.user_id = u] :
        pr \in {"normal", "high"}, u \in {"u2", "u3", "u4"}}
    \cup {[BasePayload EXCEPT !.user_type = "premium"],
          [BasePayload EXCEPT !.retry_count_email = 6],
          [BasePayload EXCEPT !.event_id = "test_event"]}

(***************************************************************************)
(* State.                                                                  *)
(***************************************************************************)
VARIABLES
    published,     \* number of messages published on event_queue so far
    ingress,       \* event_queue: message id -> [payload, vis]
    events,        \* table event: event_id -> item
    queues,        \* channel queues: queue name -> (message id -> [payload, vis])
    dlq,           \* queue dlq: sequence of message bodies
    router,        \* listen_to_sqs of the router: [pc, batch, entries_to_delete,
                   \*   messages, failed]
    disp,          \* listen_to_sqs_with_priority per channel: [pc, batch]
    routed,        \* history: event_id -> what process_message of the router did
    lastCritical,  \* history: size of the last batch received from the critical queue
    ran,           \* history: the process_message runs of the workers that ended
    attempts,      \* history: transport calls made per <<channel, message id>>
    connections,   \* table user_connections: user_id -> item
    indexes,       \* table user_connections: the names of its secondary indexes
    sockets,       \* websocket_endpoint calls: socket -> [endpoint, user_id, pc]
    stored,        \* history: the <<user_id, device_type>> store_connection wrote
    pushes,        \* history: the send_push_notification calls that returned
    publisher,     \* publish_events: [pc, payloads, tasks, response]
    topic,         \* the payloads published on the topic, in order
    unpublished    \* history: the payloads whose publish raised

\* event_queue, table event, the channel queues, router and dispatchers
pipeline == <<published, ingress, events, queues, dlq, router, disp, routed,
              lastCritical, ran, attempts>>

\* table user_connections and the web socket endpoints
registry == <<connections, indexes, sockets, stored, pushes>>

\* the endpoint publish_events and the topic
fanout == <<publisher, topic, unpublished>>

vars == <<pipeline, registry, fanout>>

\* the ids of a queue's messages that a receive_message can return
Visible(q) == {m \in DOMAIN q : q[m].vis = "visible"}

\* the messages of a set as a list, in the order the queue returns them
RECURSIVE AsList(_)
AsList(S) ==
    IF S = {} THEN <<>>
    ELSE LET m == CHOOSE x \in S : \A y \in S : x <= y
         IN  <<m>> \o AsList(S \ {m})

\* the first n elements of a list
Take(l, n) == SubSeq(l, 1, IF Len(l) < n THEN Len(l) ELSE n)

\* the batch a receive_message with MaxNumberOfMessages = n returns: the
\* visible messages, oldest first, up to n of them
Batch(q, n) == Take(AsList(Visible(q)), n)

\* the elements of a list
Range(l) == {l[i] : i \in 1..Len(l)}

\* marks the messages of a received batch as in flight
Receive(q, B) ==
    [m \in DOMAIN q |-> IF m \in B THEN [q[m] EXCEPT !.vis = "inflight"] ELSE q[m]]

\* adds a message to a queue
Send(q, m, body) ==
    [x \in DOMAIN q \cup {m} |-> IF x = m THEN body ELSE q[x]]

\* removes messages from a queue
Delete(q, B) == [m \in DOMAIN q \ B |-> q[m]]

\* IndexName of the query of get_user_connections
IndexName == "user_id-index"

\* KeySchema of create_user_connections_table: the attribute that keys the
\* items of table user_connections
KeySchema == "user_id"

\* GlobalSecondaryIndexes of create_user_connections_table: the table is
\* created with the key user_id and without a secondary index
GlobalSecondaryIndexes == {}

\* listen_to_sqs between two batches.  messages is the batch as received;
\* failed records, per message of the batch whose process_message raised,
\* the statement that raised
RouterIdle ==
    [pc |-> "receive", batch |-> <<>>, entries_to_delete |-> {},
     messages |-> {}, failed |-> <<>>, interrupted |-> <<>>]

InitPipeline ==
    /\ published = 0
    /\ ingress = <<>>
    /\ events = <<>>
    /\ queues = [q \in QueueNames |-> <<>>]
    /\ dlq = <<>>
    /\ router = RouterIdle
    /\ disp = [c \in Channels |-> [pc |-> "recv_critical", batch |-> <<>>]]
    /\ routed = <<>>
    /\ lastCritical = [c \in Channels |-> 0]
    /\ ran = {}
    /\ attempts = [x \in {} |-> 0]

\* an empty table user_connections with the secondary indexes ix, no socket
InitTable(ix) ==
    /\ connections = [x \in {} |-> x]
    /\ indexes = ix
    /\ sockets = [x \in {} |-> x]
    /\ stored = {}
    /\ pushes = {}

\* no request to publish_events yet
InitFanout ==
    /\ publisher = [pc |-> "idle", payloads |-> 0, tasks |-> <<>>,
                    response |-> [received |-> 0, batches |-> 0]]
    /\ topic = <<>>
    /\ unpublished = {}

\* the tables as setup_localstack_resources creates them
Init == InitPipeline /\ InitTable(GlobalSecondaryIndexes) /\ InitFanout

\* table user_connections as setup_localstack_resources creates it, or with
\* the index that the query of get_user_connections names
InitRegistry ==
    /\ InitPipeline
    /\ InitFanout
    /\ \E ix \in {GlobalSecondaryIndexes, {IndexName}} : InitTable(ix)

(***************************************************************************)
(* Producers: the fan-out topic delivers {"Message": json} on event_queue. *)
(***************************************************************************)
Publish(p) ==
    /\ published < MaxEvents
    /\ published' = published + 1
    /\ ingress' = Send(ingress, published + 1,
                        [payload |-> p, vis |-> "visible", json |-> TRUE])
    /\ UNCHANGED <<registry, fanout>>
    /\ UNCHANGED <<events, queues, dlq, router, disp, routed, lastCritical,
                   ran, attempts>>

\* a message on event_queue whose Body, or the Message inside it, is not JSON
PublishMalformed ==
    /\ published < MaxEvents
    /\ published' = published + 1
    /\ ingress' = Send(ingress, published + 1,
                        [payload |-> BasePayload, vis |-> "visible", json |-> FALSE])
    /\ UNCHANGED <<registry, fanout>>
    /\ UNCHANGED <<events, queues, dlq, router, disp, routed, lastCritical,
                   ran, attempts>>

(***************************************************************************)
(* Ingress router (sqs_listener.py).                                       *)
(***************************************************************************)
\* listen_to_sqs: receive_message on event_queue returned a non-empty batch
RouterReceive ==
    /\ router.pc = "receive"
    /\ Visible(ingress) # {}
    /\ LET B == Batch(ingress, MaxNumberOfMessages)
       IN  /\ ingress' = Receive(ingress, Range(B))
           /\ router' = [pc |-> "process", batch |-> B, entries_to_delete |-> {},
                         messages |-> Range(B), failed |-> <<>>,
                         interrupted |-> <<>>]
    /\ UNCHANGED <<registry, fanout>>
    /\ UNCHANGED <<published, events, queues, dlq, disp, routed, lastCritical,
                   ran, attempts>>

\* an item written with a status that is no member of EventStatus
EventItemPending(id, p) ==
    [event_id |-> id,
     status |-> "PENDING",
     retry_count_sms |-> p.retry_count_sms,
     retry_count_email |-> p.retry_count_email,
     retry_count_push |-> p.retry_count_push,
     user_id |-> Get(p.user_id, "unknown"),
     event_type |-> Get(p.event_type, "UNKNOWN"),
     priority |-> Get(p.priority, "normal")]

\* the number of send_message calls of a route_to_notification_queues none of
\* whose calls raises: one per channel
AllSent == Cardinality(Channels)

\* the item process_message builds for a payload under a fresh event_id
EventItem(id, p) ==
    [event_id |-> id,
     status |-> "START",
     retry_count_sms |-> p.retry_count_sms,
     retry_count_email |-> p.retry_count_email,
     retry_count_push |-> p.retry_count_push,
     user_id |-> Get(p.user_id, "unknown"),
     event_type |-> Get(p.event_type, "UNKNOWN"),
     priority |-> Get(p.priority, "normal")]

\* the queues after route_to_notification_queues sent the payload to targets
RECURSIVE SendAll(_, _, _, _)
SendAll(qs, targets, id, p) ==
    IF targets = <<>> THEN qs
    ELSE SendAll([qs EXCEPT ![Head(targets)] =
                     Send(@, id, [payload |-> p, vis |-> "visible"])],
                 Tail(targets), id, p)

\* an event_id drawn without regard to the items: one per batch
UsedId == Cardinality(DOMAIN ingress)

\* uuid.uuid4(): an event_id no item has
FreshId == Cardinality(DOMAIN events) + 1

\* a listen_to_sqs that hands every message of the batch to the batch delete
DeletesSourceAlways(outcome) == TRUE

\* listen_to_sqs appends a message to entries_to_delete only when its
\* process_message returned
DeletesSource(outcome) == outcome = "returned"

\* the outcome of process_message of the router: json.loads raises on a
\* malformed body, put_item raises when the table does not take the item,
\* send_message raises when the bus does not take a message
ProcessOutcome(msg, put_ok, sent, targets) ==
    IF ~msg.json THEN "json.loads"
    ELSE IF ~put_ok THEN "put_item"
    ELSE IF sent < Len(targets) THEN "send_message"
    ELSE "returned"

\* a route_to_notification_queues that takes back what it sent when a later
\* send_message raises
SentBeforeRaiseUndone(targets, sent) == <<>>

\* the queues route_to_notification_queues has sent to when the send_message
\* call behind sent successful ones raises: nothing takes a sent message back
SentBeforeRaise(targets, sent) == Take(targets, sent)

\* process_message of the router on the next message of the batch, then the
\* append to entries_to_delete; lookups are the outcomes the lookup in table
\* user_preferences can have (TRUE: it answers, FALSE: it raises), stores
\* the outcomes of put_item on table event (FALSE: it raises), sends the
\* outcomes of route_to_notification_queues (the number of send_message
\* calls that succeed before one raises; AllSent: none raises)
RouterProcess(lookups, stores, sends) ==
    /\ router.pc = "process"
    /\ router.batch # <<>>
    /\ \E now \in Clock \cup {NoClock}, ok \in lookups, put_ok \in stores,
          sent \in sends :
          LET m       == Head(router.batch)
              p       == ingress[m].payload
              id      == FreshId
              prefs   == get_user_preferences(Get(p.user_id, Absent), ok)
              targets == RouteTargets(p, prefs, now)
              outcome == ProcessOutcome(ingress[m], put_ok, sent, targets)
          IN  /\ CASE outcome = "returned" ->
                         /\ ReadsClock(prefs) <=> now # NoClock
                         /\ events' = Send(events, id, EventItem(id, p))
                         /\ queues' = SendAll(queues, targets, id, p)
                         /\ routed' = Send(routed, id,
                                           [src |-> m, payload |-> p, now |-> now,
                                            lookup |-> ok, prefs |-> prefs,
                                            targets |-> targets])
                    [] outcome = "send_message" ->
                         /\ Cardinality(DOMAIN events) < MaxItems
                         /\ ReadsClock(prefs) <=> now # NoClock
                         /\ events' = Send(events, id, EventItem(id, p))
                         /\ queues' = SendAll(queues,
                                               SentBeforeRaise(targets, sent),
                                               id, p)
                         /\ UNCHANGED routed
                    [] OTHER ->
                         /\ now = NoClock /\ ok /\ sent = AllSent
                         /\ UNCHANGED <<events, queues, routed>>
              /\ router' = [router EXCEPT
                               !.batch = Tail(@),
                               !.entries_to_delete =
                                   IF DeletesSource(outcome) THEN @ \cup {m} ELSE @,
                               !.failed =
                                   IF outcome = "returned" THEN @
                                   ELSE Send(@, m, outcome),
                               !.interrupted =
                                   IF outcome = "send_message"
                                      THEN Send(@, m, [targets |-> targets,
                                                       sent |-> sent])
                                      ELSE @,
                               !.pc = IF Tail(router.batch) = <<>>
                                         THEN "delete" ELSE "process"]
    /\ UNCHANGED <<registry, fanout>>
    /\ UNCHANGED <<published, ingress, dlq, disp, lastCritical, ran, attempts>>

\* a listen_to_sqs that calls delete_message_batch behind every batch
DeleteCallsAlways(entries) == <<entries>>

\* the delete_message_batch calls listen_to_sqs issues behind a batch, each
\* given by its Entries: one call if entries_to_delete is not empty
DeleteCalls(entries) == IF entries # {} THEN <<entries>> ELSE <<>>

\* listen_to_sqs: delete_message_batch of the processed messages
RouterDelete ==
    /\ router.pc = "delete"
    /\ ingress' = IF DeleteCalls(router.entries_to_delete) # <<>>
                     THEN Delete(ingress, Head(DeleteCalls(router.entries_to_delete)))
                     ELSE ingress
    /\ router' = RouterIdle
    /\ UNCHANGED <<registry, fanout>>
    /\ UNCHANGED <<published, events, queues, dlq, disp, routed, lastCritical,
                   ran, attempts>>

(***************************************************************************)
(* Delivery workers and priority dispatchers (send_sms_notif.py,           *)
(* email_service.py, send_push_notif.py).                                  *)
(***************************************************************************)
\* a receive_message without a limit on the size of its answer
MaxMessagesBacklog(c) == MaxBacklog

\* MaxNumberOfMessages of the receive_message calls of a dispatcher
MaxMessages(c) == IF c = "push" THEN 1 ELSE MaxNumberOfMessages

\* EventStatus.<member>: the attribute lookup raises AttributeError when
\* the enum has no member of that name
Raises(member) == member \notin EventStatus

\* the retry counter process_message of a channel starts from
InitialRetryCount(c, p) ==
    CASE c = "sms"   -> 0
      [] c = "email" -> p.retry_count_email
      [] c = "push"  -> 0

\* process_message of the worker of channel c on payload p: the locals it
\* computes, then the update of the item to EventStatus.IN_PROGRESS, whose
\* argument raises before update_item is called; nothing behind that
\* statement (the retry loop, the terminal update, the DLQ send) is reached.
\*   raised       the run ended with an exception
\*   key          the event_id (sms: message_id) the updates are keyed by
\*   retry_count  the retry counter at the end of the run
\*   sends        the number of transport calls made
\*   writes       the status values written to the item, in order
\*   dead_letters the bodies sent to the dlq
process_message(c, p) ==
    [raised       |-> Raises("IN_PROGRESS"),
     key          |-> IF c = "sms" THEN Absent ELSE p.event_id,
     retry_count  |-> InitialRetryCount(c, p),
     sends        |-> 0,
     writes       |-> <<>>,
     dead_letters |-> <<>>]

\* a dispatcher loop without the continue behind a critical batch: it falls
\* through to the non-critical queue
AfterBatchFallsThrough(c, pc) ==
    IF pc = "process_critical" THEN "recv_non_critical" ELSE "recv_critical"

\* where the dispatcher loop goes once a batch is processed: back to the
\* critical queue, at once (continue) or after asyncio.sleep(1)
AfterBatch(c, pc) == "recv_critical"

\* a dispatcher loop that polls the critical queue again when it answered
\* with no message
AfterEmptyCriticalRetry(c) == "recv_critical"

\* where the dispatcher loop goes when the critical queue answered with no
\* message: on to the receive_message on the non-critical queue
AfterEmptyCritical(c) == "recv_non_critical"

\* listen_to_sqs_with_priority: receive_message on the critical queue
ReceiveCritical(c) ==
    /\ disp[c].pc = "recv_critical"
    /\ LET q == CRITICAL_QUEUE_URL(c)
       IN  \/ /\ Visible(queues[q]) = {}
              /\ disp' = [disp EXCEPT ![c].pc = AfterEmptyCritical(c)]
              /\ lastCritical' = [lastCritical EXCEPT ![c] = 0]
              /\ UNCHANGED queues
           \/ /\ Visible(queues[q]) # {}
              /\ LET B == Batch(queues[q], MaxMessages(c))
                 IN  /\ queues' = [queues EXCEPT ![q] = Receive(@, Range(B))]
                     /\ disp' = [disp EXCEPT ![c] =
                                   [pc |-> "process_critical", batch |-> B]]
                     /\ lastCritical' = [lastCritical EXCEPT ![c] = Len(B)]
    /\ UNCHANGED <<registry, fanout>>
    /\ UNCHANGED <<published, ingress, events, dlq, router, routed, ran, attempts>>

\* listen_to_sqs_with_priority: receive_message on the non-critical queue;
\* on an empty answer the loop sleeps one second and starts over
ReceiveNonCritical(c) ==
    /\ disp[c].pc = "recv_non_critical"
    /\ LET q == NON_CRITICAL_QUEUE_URL(c)
       IN  \/ /\ Visible(queues[q]) = {}
              /\ disp' = [disp EXCEPT ![c].pc = "recv_critical"]
              /\ UNCHANGED queues
           \/ /\ Visible(queues[q]) # {}
              /\ LET B == Batch(queues[q], MaxMessages(c))
                 IN  /\ queues' = [queues EXCEPT ![q] = Receive(@, Range(B))]
                     /\ disp' = [disp EXCEPT ![c] =
                                   [pc |-> "process_non_critical", batch |-> B]]
    /\ UNCHANGED <<registry, fanout>>
    /\ UNCHANGED <<published, ingress, events, dlq, router, routed,
                   lastCritical, ran, attempts>>

\* the queue the current batch of a dispatcher came from
BatchQueue(c) ==
    IF disp[c].pc = "process_critical" THEN CRITICAL_QUEUE_URL(c)
    ELSE NON_CRITICAL_QUEUE_URL(c)

\* process_and_delete_message (sms: the body of the for loop) on the next
\* message of the batch.  The push dispatcher runs process_message of a
\* non-critical batch outside any try, so an exception ends the dispatcher.
ProcessAndDelete(c) ==
    /\ disp[c].pc \in {"process_critical", "process_non_critical"}
    /\ disp[c].batch # <<>>
    /\ LET m    == Head(disp[c].batch)
           q    == BatchQueue(c)
           run  == process_message(c, queues[q][m].payload)
           rest == Tail(disp[c].batch)
           uncaught == run.raised /\ c = "push"
                          /\ disp[c].pc = "process_non_critical"
           deletes == ~run.raised
                         /\ ~(c = "push" /\ disp[c].pc = "process_non_critical")
       IN  /\ queues' = IF deletes THEN [queues EXCEPT ![q] = Delete(@, {m})]
                                   ELSE queues
           /\ dlq' = dlq \o run.dead_letters
           /\ attempts' = Send(attempts, <<c, m>>,
                               (IF <<c, m>> \in DOMAIN attempts
                                   THEN attempts[<<c, m>>] ELSE 0) + run.sends)
           /\ ran' = ran \cup {[channel |-> c, message |-> m, key |-> run.key,
                                retry_count |-> run.retry_count,
                                writes |-> run.writes,
                                raised |-> run.raised]}
           /\ disp' = [disp EXCEPT ![c] =
                         IF uncaught THEN [pc |-> "crashed", batch |-> <<>>]
                         ELSE [pc |-> IF rest = <<>> THEN AfterBatch(c, disp[c].pc)
                                                     ELSE disp[c].pc,
                               batch |-> rest]]
    /\ UNCHANGED <<registry, fanout>>
    /\ UNCHANGED <<published, ingress, events, router, routed, lastCritical>>

\* the messages a dispatcher still holds in its batch
InBatch(q) ==
    {m \in DOMAIN queues[q] :
        \E c \in Channels :
            /\ disp[c].pc \in {"process_critical", "process_non_critical"}
            /\ BatchQueue(c) = q
            /\ m \in Range(disp[c].batch)}

\* the bus: a received message that was not deleted becomes visible again
\* once its visibility timeout has passed
VisibilityTimeout(q) ==
    /\ \E m \in DOMAIN queues[q] \ InBatch(q) : queues[q][m].vis = "inflight"
    /\ queues' = [queues EXCEPT ![q] =
                     [m \in DOMAIN @ |-> IF m \in InBatch(q) THEN @[m]
                                         ELSE [@[m] EXCEPT !.vis = "visible"]]]
    /\ UNCHANGED <<registry, fanout>>
    /\ UNCHANGED <<published, ingress, events, dlq, router, disp, routed,
                   lastCritical, ran, attempts>>

\* the bus: a message of event_queue that was received and not deleted
\* becomes visible again once its visibility timeout has passed
IngressVisibilityTimeout ==
    /\ router.pc = "receive"
    /\ \E m \in DOMAIN ingress : ingress[m].vis = "inflight"
    /\ ingress' = [m \in DOMAIN ingress |-> [ingress[m] EXCEPT !.vis = "visible"]]
    /\ UNCHANGED <<registry, fanout>>
    /\ UNCHANGED <<published, events, queues, dlq, router, disp, routed,
                   lastCritical, ran, attempts>>

(***************************************************************************)
(* Connection registry (push_service.py) and the web socket endpoints      *)
(* (main.py, api/main.py).                                                 *)
(***************************************************************************)
\* the web socket endpoints: /ws of main.py, /ws/{user_id} of api/main.py
Endpoints == {"main", "api"}

\* user_id of websocket_endpoint
EndpointUser(e) == IF e = "main" THEN "123" ELSE "123123"

\* the users of table user_connections
RegistryUsers == {EndpointUser(e) : e \in Endpoints}

\* device tokens of iOS devices
DeviceTokens == {"token"}

\* store_connection(user_id, device_type, connection_info): put_item writes
\* the item under its key and replaces the item that has the same key
store_connection(table, u, d, info) ==
    Send(table, u, [user_id |-> u, device_type |-> d, info |-> info])

\* get_user_connections(user_id): the query on index user_id-index; on a
\* table without that index the query raises and the function returns []
get_user_connections(table, ix, u) ==
    IF IndexName \notin ix THEN <<>>
    ELSE IF u \in DOMAIN table THEN <<table[u]>>
    ELSE <<>>

\* send_ios_push returns when the APNs call did (apns), send_web_push when
\* get_item by websocket_id answered and the socket took the frame (net);
\* get_item raises when its key is not the key of the table
send_returns(conn, apns, net) ==
    IF conn.device_type = "ios" THEN apns
    ELSE "websocket_id" = KeySchema /\ net

\* send_push_notification(user_id, message): it sends to every connection,
\* logs the exception of a send that raised and goes on, and returns None
send_push_notification(table, ix, u, apns, net) ==
    LET conns == get_user_connections(table, ix, u)
    IN  [user_id     |-> u,
         connections |-> conns,
         failed      |-> {i \in 1..Len(conns) : ~send_returns(conns[i], apns, net)},
         raised      |-> FALSE]

\* the success flag of process_message of the push worker for one call of
\* send_push_notification: it stays True unless the call raised
PushSuccess(call) == ~call.raised

\* websocket_endpoint up to the end of its try block.  main.py accepts,
\* draws a websocket_id, a string, and stores the connection.  In api/main.py the
\* argument websocket.client.url of store_connection raises AttributeError
\* before the call, and the handler raises NameError on delete_connection,
\* which no module defines.
Connect(e) ==
    /\ Cardinality(DOMAIN sockets) < MaxSockets
    /\ LET s == Cardinality(DOMAIN sockets) + 1
           u == EndpointUser(e)
       IN  IF e = "main"
           THEN /\ connections' = store_connection(connections, u, "web", ToString(s))
                /\ stored' = stored \cup {<<u, "web">>}
                /\ sockets' = Send(sockets, s,
                                   [endpoint |-> e, user_id |-> u, pc |-> "open"])
           ELSE /\ sockets' = Send(sockets, s,
                                   [endpoint |-> e, user_id |-> u, pc |-> "raised"])
                /\ UNCHANGED <<connections, stored>>
    /\ UNCHANGED <<indexes, pushes>>
    /\ UNCHANGED <<pipeline, fanout>>

\* websocket_endpoint of main.py when the client goes away: receive_text
\* raises WebSocketDisconnect, which is logged ("disconnect"), or another
\* exception, behind which the socket is closed ("error")
Close(s, how) ==
    /\ s \in DOMAIN sockets
    /\ sockets[s].pc = "open"
    /\ sockets' = [sockets EXCEPT ![s].pc = how]
    /\ UNCHANGED <<connections, indexes, stored, pushes>>
    /\ UNCHANGED <<pipeline, fanout>>

\* store_connection(user_id, 'ios', device_token)
StoreIos(u) ==
    /\ \E token \in DeviceTokens :
          connections' = store_connection(connections, u, "ios", token)
    /\ stored' = stored \cup {<<u, "ios">>}
    /\ UNCHANGED <<indexes, sockets, pushes>>
    /\ UNCHANGED <<pipeline, fanout>>

\* a call of send_push_notification(user_id, message)
Push(u) ==
    /\ Cardinality(pushes) < MaxPushes
    /\ \E apns \in BOOLEAN, net \in BOOLEAN :
          pushes' = pushes \cup
              {send_push_notification(connections, indexes, u, apns, net)}
    /\ UNCHANGED <<connections, indexes, sockets, stored>>
    /\ UNCHANGED <<pipeline, fanout>>

(***************************************************************************)
(* Fan-out publisher (api/main.py).                                        *)
(***************************************************************************)
\* the list 1, ..., n: the payloads of a request, by their position
Positions(n) == [i \in 1..n |-> i]

\* chunked_iterable(iterable, size): successive chunks of size elements, the
\* last one shorter, none empty
RECURSIVE chunked_iterable(_, _)
chunked_iterable(l, size) ==
    IF l = <<>> THEN <<>>
    ELSE <<Take(l, size)>>
         \o chunked_iterable(SubSeq(l, Len(Take(l, size)) + 1, Len(l)), size)

\* a publish_to_sns_batch that gives up its batch at the first failure
AfterFailureAbort(chunk) == <<>>

\* publish_to_sns_batch: behind a publish that raised, the loop continues
\* with the next payload of the batch
AfterFailure(chunk) == Tail(chunk)

\* publish_events(payloads) up to its return: one background task per
\* chunk, and the response with the number of payloads received
PublishEvents(n) ==
    /\ publisher.pc = "idle"
    /\ LET tasks == chunked_iterable(Positions(n), chunk_size)
       IN  publisher' = [pc       |-> IF tasks = <<>> THEN "done" ELSE "background",
                         payloads |-> n,
                         tasks    |-> tasks,
                         response |-> [received |-> Len(Positions(n)),
                                       batches  |-> Len(tasks)]]
    /\ UNCHANGED <<topic, unpublished>>
    /\ UNCHANGED <<pipeline, registry>>

\* publish_to_sns_batch on the next payload of the first background task;
\* the tasks run one after the other
PublishToSns ==
    /\ publisher.pc = "background"
    /\ \E ok \in BOOLEAN :
          LET chunk == Head(publisher.tasks)
              i     == Head(chunk)
              rest  == IF ok THEN Tail(chunk) ELSE AfterFailure(chunk)
              tasks == IF rest = <<>> THEN Tail(publisher.tasks)
                       ELSE <<rest>> \o Tail(publisher.tasks)
          IN  /\ topic' = IF ok THEN Append(topic, i) ELSE topic
              /\ unpublished' = IF ok THEN unpublished ELSE unpublished \cup {i}
              /\ publisher' = [publisher EXCEPT
                                  !.tasks = tasks,
                                  !.pc = IF tasks = <<>> THEN "done" ELSE "background"]
    /\ UNCHANGED <<pipeline, registry>>

\* the payloads published when router, dispatchers and workers all run
PipelinePayloads ==
    {[BasePayload EXCEPT !.event_type = "MENTION"],
     [BasePayload EXCEPT !.priority = "high"],
     [BasePayload EXCEPT !.user_id = "u5"],
     [BasePayload EXCEPT !.retry_count_sms = 2]}

Router(lookups, stores, sends) ==
    \/ RouterReceive
    \/ RouterProcess(lookups, stores, sends)
    \/ RouterDelete

Dispatcher(c) ==
    \/ ReceiveCritical(c)
    \/ ReceiveNonCritical(c)
    \/ ProcessAndDelete(c)

\* the router process alone, on every payload, with a table user_preferences
\* whose lookups may raise, a table event whose put_item may raise, a bus
\* whose send_message may raise, and malformed messages
NextRouter ==
    \/ \E p \in Payloads : Publish(p)
    \/ PublishMalformed
    \/ Router(BOOLEAN, BOOLEAN, {0, AllSent})
    \/ IngressVisibilityTimeout

SpecRouter == Init /\ [][NextRouter]_vars

\* router, dispatchers and workers running concurrently, with a table
\* user_preferences that answers
Next ==
    \/ \E p \in PipelinePayloads : Publish(p)
    \/ Router({TRUE}, {TRUE}, {AllSent})
    \/ \E c \in Channels : Dispatcher(c)
    \/ \E q \in QueueNames : VisibilityTimeout(q)

Spec == Init /\ [][Next]_vars

\* the web socket endpoints, the registry and the push sender
NextRegistry ==
    \/ \E e \in Endpoints : Connect(e)
    \/ \E s \in 1..MaxSockets, how \in {"disconnect", "error"} : Close(s, how)
    \/ \E u \in RegistryUsers : StoreIos(u)
    \/ \E u \in RegistryUsers : Push(u)

SpecRegistry == InitRegistry /\ [][NextRegistry]_vars

\* the event of the backlog: critical by its priority, of user u4, who has
\* sms and push enabled
BacklogPayload == [BasePayload EXCEPT !.priority = "high", !.user_id = "u4"]

\* what process_message of the router recorded for an event of the backlog
BacklogRouted(id) ==
    LET prefs == get_user_preferences("u4", TRUE)
    IN  [src |-> id, payload |-> BacklogPayload, now |-> 2330, lookup |-> TRUE,
         prefs |-> prefs, targets |-> RouteTargets(BacklogPayload, prefs, 2330)]

\* the state the router leaves when it has routed MaxBacklog events while
\* no dispatcher ran: their items, and their messages on the queues
InitBacklog ==
    /\ published = MaxBacklog
    /\ ingress = <<>>
    /\ events = [id \in 1..MaxBacklog |-> EventItem(id, BacklogPayload)]
    /\ routed = [id \in 1..MaxBacklog |-> BacklogRouted(id)]
    /\ queues = [q \in QueueNames |->
                    IF q \in Range(BacklogRouted(1).targets)
                    THEN [id \in 1..MaxBacklog |->
                             [payload |-> BacklogPayload, vis |-> "visible"]]
                    ELSE <<>>]
    /\ dlq = <<>>
    /\ router = RouterIdle
    /\ disp = [c \in Channels |-> [pc |-> "recv_critical", batch |-> <<>>]]
    /\ lastCritical = [c \in Channels |-> 0]
    /\ ran = {}
    /\ attempts = [x \in {} |-> 0]
    /\ InitTable(GlobalSecondaryIndexes)
    /\ InitFanout

\* the dispatchers on a backlog of routed events
NextBacklog ==
    \/ \E c \in Channels : Dispatcher(c)
    \/ \E q \in QueueNames : VisibilityTimeout(q)

SpecBacklog == InitBacklog /\ [][NextBacklog]_vars

\* the router alone, with a table user_preferences that answers, on a bus
\* whose send_message may raise behind any number of successful calls and
\* that redelivers what was not deleted
NextRedelivery ==
    \/ \E p \in PipelinePayloads : Publish(p)
    \/ Router({TRUE}, {TRUE}, 0..AllSent)
    \/ IngressVisibilityTimeout

SpecRedelivery == Init /\ [][NextRedelivery]_vars

\* one request to the endpoint publish_events and its background tasks
NextPublisher ==
    \/ \E n \in 0..MaxPayloads : PublishEvents(n)
    \/ PublishToSns

SpecPublisher == Init /\ [][NextPublisher]_vars

\* every process keeps running and the bus redelivers what was not deleted
FairSpec ==
    /\ Spec
    /\ WF_vars(Router({TRUE}, {TRUE}, {AllSent}))
    /\ \A c \in Channels : WF_vars(Dispatcher(c))
    /\ \A q \in QueueNames : WF_vars(VisibilityTimeout(q))

(***************************************************************************)
(* Properties.                                                             *)
(***************************************************************************)
\* C1, as stated: while a dispatcher processes a batch it took from its
\* non-critical queue, its critical queue offers no message.
C1_NoNonCriticalWhileCritical ==
    \A c \in Channels :
        disp[c].pc = "process_non_critical"
            => Visible(queues[CRITICAL_QUEUE_URL(c)]) = {}

\* C1, amended: a dispatcher turns to its non-critical queue only when its
\* last receive on the critical queue, in the same turn of the loop, came
\* back empty.
C1_NonCriticalOnlyAfterEmptyCritical ==
    \A c \in Channels :
        disp[c].pc \in {"recv_non_critical", "process_non_critical"}
            => lastCritical[c] = 0

\* a dispatcher processes a non-critical batch while the router has put a
\* message on its critical queue
C1_Witness ==
    \E c \in Channels :
        /\ disp[c].pc = "process_non_critical"
        /\ disp[c].batch # <<>>
        /\ lastCritical[c] = 0
        /\ Visible(queues[CRITICAL_QUEUE_URL(c)]) # {}

\* the status values that end the life of an event
Terminal == {"SUCCESS", "FAILED"}

\* the event_ids the router can mint within the bounds
EventIds == 1..MaxEvents

\* C2: the record of an event that was put on at least one channel queue
\* eventually shows SUCCESS or FAILED, and the record of an event that was
\* put on no channel queue stays in START.
C2_TerminalIffEnqueued ==
    \A id \in EventIds :
        /\ (id \in DOMAIN routed /\ routed[id].targets # <<>>)
              ~> (id \in DOMAIN events /\ events[id].status \in Terminal)
        /\ [](id \in DOMAIN routed /\ routed[id].targets = <<>>
                => events[id].status = "START")

\* the retry counters of an item or of a dlq body
RetryCounts(r) == {r.retry_count_sms, r.retry_count_email, r.retry_count_push}

\* C4: no retry counter stored on an item of table event or carried by a
\* message of the dlq exceeds max_retries.
C4_RetryCountAtMostMax ==
    /\ \A id \in DOMAIN events : \A n \in RetryCounts(events[id]) : n <= max_retries
    /\ \A i \in 1..Len(dlq) : \A n \in RetryCounts(dlq[i]) : n <= max_retries

\* the priority decision as specified: the tag of the event, its priority or
\* the type of its user make it critical
PriorityPredicate(p) ==
    \/ p.event_type \in {"MENTION", "COMMENT", "REPLY"}
    \/ p.priority = "high"
    \/ p.user_type \in {"admin", "premium"}

\* C6: an event that is not suppressed goes to the critical queue of a
\* channel exactly if the channel is enabled and the priority predicate
\* holds, and to the non-critical queue of every other enabled channel.
C6_CriticalIffPredicate ==
    \A id \in DOMAIN routed :
        LET r == routed[id]
        IN  ~Suppressed(r.payload, r.prefs, r.now) =>
              \A c \in Channels :
                  /\ QUEUES(c, TRUE) \in Range(r.targets)
                        <=> PrefGet(r.prefs, c, FALSE) /\ PriorityPredicate(r.payload)
                  /\ PrefGet(r.prefs, c, FALSE) /\ ~PriorityPredicate(r.payload)
                        => QUEUES(c, FALSE) \in Range(r.targets)

\* the input of scenario S1
S1Payload == [BasePayload EXCEPT !.event_type = "MENTION"]

\* C7: the event of scenario S1 is put once on the critical queue of each
\* channel, the workers update the item the router stored for it, and once
\* the workers of all channels have run, that item shows SUCCESS and the dlq
\* is empty.
C7_ScenarioS1 ==
    \A id \in DOMAIN routed :
        routed[id].payload = S1Payload =>
            /\ Range(routed[id].targets) = {QUEUES(c, TRUE) : c \in Channels}
            /\ \A r \in ran : r.message = id => r.key = id
            /\ (\A c \in Channels : \E r \in ran : r.channel = c /\ r.message = id)
                  => events[id].status = "SUCCESS" /\ dlq = <<>>

\* C8: a run of the email worker that started from retry counter 0 and
\* ended without a successful send has made max_retries attempts, has left
\* retry_count_email = max_retries and FAILED on the item, one message with
\* that counter on the dlq, and its message is gone from the email queue.
C8_ScenarioS2 ==
    \A r \in ran :
        r.channel = "email" /\ routed[r.message].payload.retry_count_email = 0
        /\ events[r.message].status # "SUCCESS" =>
            /\ attempts[<<"email", r.message>>] = max_retries
            /\ events[r.message].retry_count_email = max_retries
            /\ events[r.message].status = "FAILED"
            /\ Len(dlq) = 1 /\ dlq[1].retry_count_email = max_retries
            /\ \A b \in BOOLEAN : r.message \notin DOMAIN queues[QUEUES("email", b)]

\* a window [start, end] of the day, also one that crosses midnight
InWindow(start, end, now) ==
    IF start <= end THEN start <= now /\ now <= end
    ELSE start <= now \/ now <= end

\* C9: under enabled quiet hours an event that is not critical is put on no
\* queue when the time of routing lies in the window, windows across
\* midnight included, and a critical event is put on critical queues.
C9_QuietHours ==
    \A id \in DOMAIN routed :
        LET r == routed[id]
        IN  ReadsClock(r.prefs)
            /\ InWindow(r.prefs.quiet_hours.start, r.prefs.quiet_hours.end, r.now) =>
              /\ ~determine_priority(r.payload) => r.targets = <<>>
              /\ determine_priority(r.payload) =>
                    \A c \in Channels :
                        PrefGet(r.prefs, c, FALSE)
                            => QUEUES(c, TRUE) \in Range(r.targets)

\* the events that the router dropped for a priority_only user
PriorityOnlyDrops ==
    {id \in DOMAIN routed :
        /\ PrefGet(routed[id].prefs, "priority_only", FALSE)
        /\ ~determine_priority(routed[id].payload)}

C11_CriticalNeverSuppressed ==
    \A id \in DOMAIN routed :
        LET r == routed[id]
        IN  determine_priority(r.payload) =>
              \A c \in Channels :
                  PrefGet(r.prefs, c, DefaultPrefs[c])
                      => QUEUES(c, TRUE) \in Range(r.targets)

C18_MalformedDeleted ==
    \A m \in DOMAIN router.failed :
        router.failed[m] = "json.loads" =>
            /\ m \in router.entries_to_delete
            /\ \A id \in DOMAIN routed : routed[id].src # m
            /\ dlq = <<>>

\* the web socket sessions that have ended
Ended == {"disconnect", "error", "raised"}

\* C12: once every web socket of a user has ended, by disconnect or by
\* error, get_user_connections returns no web connection of that user.
C12_NoWebRecordAfterDisconnect ==
    \A s \in DOMAIN sockets :
        LET u == sockets[s].user_id
            l == get_user_connections(connections, indexes, u)
        IN  (\A t \in DOMAIN sockets :
                 sockets[t].user_id = u => sockets[t].pc \in Ended)
              => \A i \in 1..Len(l) : l[i].device_type # "web"

\* C13: on a table whose query by user answers, get_user_connections
\* returns a connection for every device type that was stored for the user.
C13_EveryStoredDeviceListed ==
    \A x \in stored :
        LET l == get_user_connections(connections, indexes, x[1])
        IN  IndexName \in indexes
              => \E i \in 1..Len(l) : l[i].device_type = x[2]

\* C14: the push worker counts a call of send_push_notification as a
\* success exactly if no send to a connection of the user failed.
C14_PushOkIffAllTargetsOk ==
    \A call \in pushes : PushSuccess(call) <=> call.failed = {}

\* the events the router has put on a queue of the push channel
PushRouted ==
    {id \in DOMAIN routed :
        \E b \in BOOLEAN : QUEUES("push", b) \in Range(routed[id].targets)}

\* C15: the item of an event that was put on a push queue eventually shows
\* SUCCESS with nothing on the dlq, or FAILED with retry_count_push =
\* max_retries and a message on the dlq.
C15_PushRetryMachine ==
    \A id \in EventIds :
        (id \in PushRouted)
            ~> /\ id \in DOMAIN events
               /\ \/ events[id].status = "SUCCESS" /\ dlq = <<>>
                  \/ /\ events[id].status = "FAILED"
                     /\ events[id].retry_count_push = max_retries
                     /\ dlq # <<>>

\* C16: the item of an event that was put on a push queue for a user
\* without a registered connection eventually shows SUCCESS, with the
\* retry counter the router stored and nothing on the dlq.
C16_NoConnectionIsSuccess ==
    \A id \in EventIds :
        (/\ id \in PushRouted
         /\ get_user_connections(connections, indexes,
                                 routed[id].payload.user_id) = <<>>)
            ~> /\ id \in DOMAIN events
               /\ events[id].status = "SUCCESS"
               /\ events[id].retry_count_push = routed[id].payload.retry_count_push
               /\ dlq = <<>>

\* the events routed without stored preferences: the user has no item in
\* table user_preferences, or the lookup raised
RoutedWithoutPreferences ==
    {id \in DOMAIN routed :
        \/ ~routed[id].lookup
        \/ ~HasPreferences(routed[id].payload.user_id)}

\* C23: an event routed without stored preferences is routed as under the
\* default preferences: it is put on the queue of its priority of each of
\* the three channels.
C23_DefaultPreferences ==
    \A id \in RoutedWithoutPreferences :
        LET r == routed[id]
        IN  /\ r.targets = RouteTargets(r.payload, DefaultPrefs, r.now)
            /\ Range(r.targets) =
                  {QUEUES(c, determine_priority(r.payload)) : c \in Channels}
            /\ \A q \in Range(r.targets) : id \in DOMAIN queues[q]

\* an event of a user without item and an event whose lookup raised, both
\* not critical, both on the three non-critical queues
C23_Witness ==
    /\ \E id \in DOMAIN routed :
          /\ routed[id].lookup
          /\ ~HasPreferences(routed[id].payload.user_id)
          /\ ~determine_priority(routed[id].payload)
          /\ Len(routed[id].targets) = 3
    /\ \E id \in DOMAIN routed :
          /\ ~routed[id].lookup
          /\ HasPreferences(routed[id].payload.user_id)
          /\ ~determine_priority(routed[id].payload)
          /\ Len(routed[id].targets) = 3

\* C24: a step of the router adds at most one item to table event, under
\* an event_id that no item has, it changes no item that exists, and the
\* event_id of every item is its key.
C24_OneFreshRecordPerDelivery ==
    [][/\ \A id \in DOMAIN events :
             id \in DOMAIN events' /\ events'[id] = events[id]
       /\ \A id \in DOMAIN events' : events'[id].event_id = id
       /\ Cardinality(DOMAIN events') <= Cardinality(DOMAIN events) + 1]_vars

\* a message was delivered to the router a second time: table event has
\* more items than event_queue had messages
C24_Witness ==
    /\ Cardinality(DOMAIN events) > published
    /\ router.pc = "receive"
    /\ ingress = <<>>

\* the number of times a payload stands on the topic
Published(i) == Cardinality({k \in 1..Len(topic) : topic[k] = i})

\* C22: no payload is published twice; once the background tasks have
\* ended, every payload whose publish did not raise is on the topic once,
\* whatever chunk it is in; the response counts the payloads received.
C22_FailureDoesNotAbortBatch ==
    /\ \A i \in 1..publisher.payloads : Published(i) <= 1
    /\ publisher.pc = "done" =>
          \A i \in 1..publisher.payloads :
              Published(i) = IF i \in unpublished THEN 0 ELSE 1
    /\ publisher.pc # "idle" => publisher.response.received = publisher.payloads

\* a request of two chunks has ended: the first publish of the first chunk
\* raised, a later payload of that chunk and one of the second chunk are on
\* the topic
C22_Witness ==
    /\ publisher.pc = "done"
    /\ publisher.response.batches = 2
    /\ 1 \in unpublished
    /\ Published(2) = 1
    /\ Published(chunk_size + 1) = 1

\* C31: behind a batch the messages handed to delete_message_batch are the
\* messages of the batch whose process_message did not raise, in one call,
\* and no call is made when there is none.
C31_BatchDeleteOfProcessed ==
    router.pc = "delete" =>
        LET calls == DeleteCalls(router.entries_to_delete)
        IN  /\ router.entries_to_delete = router.messages \ DOMAIN router.failed
            /\ Len(calls) <= 1
            /\ \A i \in 1..Len(calls) : calls[i] = router.entries_to_delete
            /\ router.entries_to_delete = {} => calls = <<>>

\* a batch in which every process_message raised, about to skip the delete
C31_Witness ==
    /\ router.pc = "delete"
    /\ router.messages # {}
    /\ router.entries_to_delete = {}
    /\ DeleteCalls(router.entries_to_delete) = <<>>

\* C32: a dispatcher that is about to receive holds no message of an
\* earlier batch, and the batch a dispatcher holds has at most
\* MaxNumberOfMessages messages.
C32_OneBatchInFlight ==
    \A c \in Channels :
        /\ disp[c].pc \in {"recv_critical", "recv_non_critical"}
              => disp[c].batch = <<>>
        /\ Len(disp[c].batch) <= MaxNumberOfMessages
        /\ Cardinality(InBatch(BatchQueue(c))) <= MaxNumberOfMessages

\* a dispatcher holds a batch of MaxNumberOfMessages messages while its
\* queue offers one more
C32_Witness ==
    \E c \in Channels :
        /\ disp[c].pc = "process_critical"
        /\ Len(disp[c].batch) = MaxNumberOfMessages
        /\ Visible(queues[CRITICAL_QUEUE_URL(c)]) # {}

C34_PushMessageReceived ==
    \A id \in EventIds :
        (id \in PushRouted)
            ~> (\E r \in ran : r.channel = "push" /\ r.message = id)

\* C36: the retry counter a run of the worker of a channel holds is the
\* retry_count_<channel> of the event it runs on, stored with the item of
\* the event.
C36_CounterFromEvent ==
    \A r \in ran :
        r.message \in DOMAIN events =>
            r.retry_count =
                (CASE r.channel = "sms"   -> events[r.message].retry_count_sms
                   [] r.channel = "email" -> events[r.message].retry_count_email
                   [] r.channel = "push"  -> events[r.message].retry_count_push)

\* the routed events whose preferences enable no channel
RoutedWithoutChannel ==
    {id \in DOMAIN routed :
        \A c \in Channels : ~PrefGet(routed[id].prefs, c, FALSE)}

\* C37: an event whose preferences enable no channel has an item in START
\* and a message on no channel queue.
C37_NoChannelNoEnqueue ==
    \A id \in RoutedWithoutChannel :
        /\ id \in DOMAIN events
        /\ events[id].status = "START"
        /\ routed[id].targets = <<>>
        /\ \A q \in QueueNames : id \notin DOMAIN queues[q]

\* an event that nothing suppresses was routed for a user whose stored
\* preferences enable no channel
C37_Witness ==
    \E id \in RoutedWithoutChannel :
        /\ routed[id].lookup
        /\ ~Suppressed(routed[id].payload, routed[id].prefs, routed[id].now)
        /\ id \in DOMAIN events

\* C39: when a send_message call of the fan-out raises behind successful
\* ones, the run has written one more item, every queue it had sent to holds
\* one more message, under the id of that item, no queue has lost a message,
\* and the source message is not among the entries to delete; the delete
\* behind the batch leaves the source message on the ingress queue.
C39_FanOutNotAtomic ==
    [][/\ \A m \in DOMAIN router'.interrupted \ DOMAIN router.interrupted :
             LET run == router'.interrupted[m]
             IN  /\ m \notin router'.entries_to_delete
                 /\ m \in DOMAIN ingress'
                 /\ DOMAIN events' = DOMAIN events \cup {FreshId}
                 /\ FreshId \notin DOMAIN events
                 /\ \A q \in QueueNames : DOMAIN queues[q] \subseteq DOMAIN queues'[q]
                 /\ \A i \in 1..run.sent :
                       DOMAIN queues'[run.targets[i]] =
                           DOMAIN queues[run.targets[i]] \cup {FreshId}
       /\ router.pc = "delete" /\ router'.pc = "receive"
             => /\ DOMAIN router.interrupted \subseteq DOMAIN ingress'
                /\ queues' = queues /\ events' = events]_vars

\* one published event was redelivered behind a fan-out that raised after its
\* first send_message: there are two items, and the queue served first holds
\* two messages
C39_Witness ==
    /\ published = 1
    /\ Cardinality(DOMAIN events) = 2
    /\ \E q \in QueueNames : Cardinality(DOMAIN queues[q]) = 2
    /\ \E m \in DOMAIN router.interrupted : router.interrupted[m].sent >= 1

====
